---- MODULE Spec2Model ----
(***************************************************************************)
(* Execution-risk pipeline on Uniswap v3 swap logs.                        *)
(*                                                                         *)
(*   01_fetch_swaps.py            Range Fetcher + Event Decoder + store    *)
(*   03_build_features.py         Feature Pipeline                         *)
(*   06_backtest_z_resize.py      static z-cap backtest                    *)
(*   07_backtest_rolling_z_cap.py rolling z-cap backtest                   *)
(*                                                                         *)
(* Each script is a sequential process; the scripts share only the SQLite  *)
(* tables.  One specification per stage:                                   *)
(*   Spec          the fetcher, run repeatedly against one store           *)
(*   SpecFeatures  the feature pipeline over a store                       *)
(*   SpecBacktest  the two backtests over a feature table                  *)
(***************************************************************************)
EXTENDS Integers, Sequences, FiniteSets, TLC

VARIABLES
    swaps_raw,      \* table swaps_raw: the committed rows
    POOL_ADDRESS,   \* configuration of the running fetcher
    FROM_BLOCK,
    TO_BLOCK,
    adapter,        \* how w3.eth.get_logs behaves during this run
    pc,             \* position of the fetcher
    cur,
    chunk,
    end,
    retries,
    nruns,          \* fetcher runs started so far
    chunks,         \* history: the chunks [cur, end] fetched successfully in this run
    firstRows,      \* history: every row as it was when first inserted
    conflict,       \* history: an insert was ignored although its values differed
    runBase,        \* history: swaps_raw when this run started
    seriesBase,     \* history: swaps_raw when the first run of this series started
    resumed,        \* history: this run repeats the interval of a fatally failed run
    mixed           \* history: some fetch of this series returned a non-canonical payload

fetchVars == <<swaps_raw, POOL_ADDRESS, FROM_BLOCK, TO_BLOCK, adapter, pc, cur, chunk,
               end, retries, nruns, chunks, firstRows, conflict, runBase, seriesBase,
               resumed, mixed>>

VARIABLES
    columns,        \* the column names of the input table; {} when there is no input table
    swaps_features, \* table swaps_features: the committed rows, in insertion order
    fpc,            \* position of the feature pipeline
    scan,           \* the rows the SELECT cursor has still to yield
    prev_price,
    prev_liq,
    rows_out,       \* the batch not yet inserted
    n,              \* rows read so far
    featSrc         \* history: the store row behind each emitted record

featVars == <<columns, swaps_features, fpc, scan, prev_price, prev_liq, rows_out, n, featSrc>>

VARIABLES
    script,         \* which backtest runs: "06" or "07"
    table,          \* table swaps_features as the backtest finds it, in (block, log) order
    cfg,            \* the environment: Z_CAP_Q / STATIC_Q, Z_CAP, ROLL_W, ROLL_Q
    bpc,            \* position of the backtest
    train,
    test,
    z_cap,          \* z_cap of 06, z_cap_static of 07
    scale_static,   \* test["scale"] of 06, test["scale_static"] of 07
    size_eff_static,
    z_cap_roll,
    t,              \* the rolling loop's index (0-based, as in the code)
    scale_roll,
    size_eff_roll,
    res,            \* the summary rows of 07
    exec_frac       \* exec_frac_static and exec_frac_roll of 07

btVars == <<script, table, cfg, bpc, train, test, z_cap, scale_static, size_eff_static,
            z_cap_roll, t, scale_roll, size_eff_roll, res, exec_frac>>

vars == <<fetchVars, featVars, btVars>>

\* What each script leaves alone: the other scripts' state.
notFetch == <<featVars, btVars>>
notFeatures == <<POOL_ADDRESS, FROM_BLOCK, TO_BLOCK, adapter, pc, cur, chunk, end, retries,
                 nruns, chunks, firstRows, conflict, runBase, seriesBase, resumed, mixed,
                 btVars>>
notBacktest == <<fetchVars, featVars>>

(***************************************************************************)
(* Program constants of 01_fetch_swaps.py                                  *)
(***************************************************************************)
INIT_CHUNK == 3000
MAX_RETRIES == 5
MIN_CHUNK == 50
\* ABI payload of a Swap event: int256,int256,uint160,uint128,int24 = 5 words
DATA_BYTES == 160

(***************************************************************************)
(* Bounds of the model                                                     *)
(***************************************************************************)
MaxBlock == 200
MaxRuns == 2

\* The contents the chain may answer with for one log: the answer of a second
\* fetch may differ from that of the first.
Versions == {1, 2}

Min(a, b) == IF a <= b THEN a ELSE b
Max(a, b) == IF a >= b THEN a ELSE b

(***************************************************************************)
(* Numbers.  Python floats and big integers are held exactly, as            *)
(* n / d * 10^e with d > 0 coprime to 10, n not divisible by 10 and         *)
(* gcd(n, d) = 1, so that equal numbers are equal records.  Rounding of     *)
(* the floating-point operations is modelled for int(n * TRAIN_FRAC) only.  *)
(* NaN is float('nan'), None is Python's None and SQL's NULL.               *)
(***************************************************************************)
NaN == [n |-> 0, d |-> 0, e |-> 0]
None == [n |-> 0, d |-> 0, e |-> -1]
IsNum(x) == x.d > 0

Abs(i) == IF i < 0 THEN 0 - i ELSE i

RECURSIVE GCD(_, _)
GCD(a, b) == IF b = 0 THEN a ELSE GCD(b, a % b)

RECURSIVE Pow10(_)
Pow10(k) == IF k <= 0 THEN 1 ELSE 10 * Pow10(k - 1)

RECURSIVE Canon(_, _, _)
Canon(n0, d0, e0) ==
    IF d0 = 0 THEN NaN
    ELSE IF n0 = 0 THEN [n |-> 0, d |-> 1, e |-> 0]
    ELSE IF d0 < 0 THEN Canon(0 - n0, 0 - d0, e0)
    ELSE IF n0 % 10 = 0 THEN Canon(n0 \div 10, d0, e0 + 1)
    ELSE IF d0 % 10 = 0 THEN Canon(n0, d0 \div 10, e0 - 1)
    ELSE IF d0 % 2 = 0
         THEN IF n0 % 2 = 0 THEN Canon(n0 \div 2, d0 \div 2, e0)
              ELSE Canon(n0 * 5, d0 \div 2, e0 - 1)
    ELSE IF d0 % 5 = 0
         THEN IF n0 % 5 = 0 THEN Canon(n0 \div 5, d0 \div 5, e0)
              ELSE Canon(n0 * 2, d0 \div 5, e0 - 1)
    ELSE LET g == GCD(Abs(n0), d0)
         IN [n |-> n0 \div g, d |-> d0 \div g, e |-> e0]

QInt(i) == Canon(i, 1, 0)
QExp(i, k) == Canon(i, 1, k)
QAbs(x) == IF IsNum(x) THEN [x EXCEPT !.n = Abs(x.n)] ELSE x
QMul(x, y) == IF IsNum(x) /\ IsNum(y) THEN Canon(x.n * y.n, x.d * y.d, x.e + y.e) ELSE NaN
\* x / y for y # 0; the callers guard y = 0 as the code does.
QDiv(x, y) == IF IsNum(x) /\ IsNum(y) THEN Canon(x.n * y.d, x.d * y.n, x.e - y.e) ELSE NaN
QSub(x, y) ==
    IF IsNum(x) /\ IsNum(y)
    THEN IF y.n = 0 THEN x
         ELSE IF x.n = 0 THEN [y EXCEPT !.n = 0 - y.n]
         ELSE
         LET m == Min(x.e, y.e)
         IN Canon(x.n * Pow10(x.e - m) * y.d - y.n * Pow10(y.e - m) * x.d, x.d * y.d, m)
    ELSE NaN
QAdd(x, y) == QSub(x, [y EXCEPT !.n = 0 - y.n])
Sign(x) == IF x.n > 0 THEN 1 ELSE IF x.n < 0 THEN -1 ELSE 0
RECURSIVE Digits(_)
Digits(k) == IF k < 10 THEN 1 ELSE 1 + Digits(k \div 10)
\* The decimal order of magnitude: 10^(Mag(x) - 1) < |x| < 10^(Mag(x) + 1).
Mag(x) == x.e + Digits(Abs(x.n)) - Digits(x.d)
\* x < y for 0 < x, 0 < y: by magnitude where that decides, else by the difference.
PosLess(x, y) ==
    IF Mag(y) >= Mag(x) + 2 THEN TRUE
    ELSE IF Mag(x) >= Mag(y) + 2 THEN FALSE
    ELSE QSub(y, x).n > 0
\* Comparisons with NaN are false, as in IEEE 754.
QLess(x, y) ==
    /\ IsNum(x) /\ IsNum(y)
    /\ IF Sign(x) # Sign(y) THEN Sign(x) < Sign(y)
       ELSE IF Sign(x) = 0 THEN FALSE
       ELSE IF Sign(x) > 0 THEN PosLess(x, y)
       ELSE PosLess(QAbs(y), QAbs(x))
QLeq(x, y) == IsNum(x) /\ IsNum(y) /\ (x = y \/ QLess(x, y))
\* What sqlite3 stores for a float: NaN becomes NULL.
ToSql(x) == IF IsNum(x) THEN x ELSE None

Pools == {"poolA", "poolB"}

\* The payload a source returns for a log in its v-th version: version 1 is the
\* canonical chain, another version is what a reorganised chain answers.
\* sqrtPriceX96 is held in units of Q96 = 2^96, which is beyond TLC's integers.
Payload(v) ==
    [amount0 |-> QInt(v * 1000000), amount1 |-> QExp(0 - (4 * v), 14),
     sqrtPriceX96 |-> QInt(20000 * v), liquidity |-> QInt(50000000 * v)]

\* The logs the Event Source holds: pool, position, number of topics, bytes of data.
Chain ==
    { [pool |-> "poolA", blockNumber |-> 1,        logIndex |-> 0, ntopics |-> 3, datalen |-> DATA_BYTES],
      [pool |-> "poolA", blockNumber |-> 93,       logIndex |-> 0, ntopics |-> 3, datalen |-> DATA_BYTES],
      [pool |-> "poolA", blockNumber |-> 94,       logIndex |-> 0, ntopics |-> 2, datalen |-> DATA_BYTES],
      [pool |-> "poolA", blockNumber |-> 94,       logIndex |-> 1, ntopics |-> 3, datalen |-> DATA_BYTES],
      [pool |-> "poolA", blockNumber |-> MaxBlock, logIndex |-> 0, ntopics |-> 3, datalen |-> 0],
      [pool |-> "poolA", blockNumber |-> MaxBlock, logIndex |-> 1, ntopics |-> 3, datalen |-> DATA_BYTES],
      [pool |-> "poolB", blockNumber |-> 93,       logIndex |-> 1, ntopics |-> 3, datalen |-> DATA_BYTES] }

\* (FROM_BLOCK, TO_BLOCK) pairs a run may be configured with; <<0, 0>> is the default.
Intervals == { <<1, MaxBlock>>, <<94, MaxBlock>>, <<0, 0>> }

\* get_logs either fails at will, or fails exactly above a width w.
Adapters ==
    { [threshold |-> FALSE, w |-> 0] } \cup
    { [threshold |-> TRUE, w |-> x] : x \in {MIN_CHUNK, INIT_CHUNK \div 32, INIT_CHUNK} }

Key(r) == <<r.pool, r.block_number, r.log_index>>
LogKey(lg) == <<lg.pool, lg.blockNumber, lg.logIndex>>
LogLess(a, b) ==
    \/ a.blockNumber < b.blockNumber
    \/ a.blockNumber = b.blockNumber /\ a.logIndex < b.logIndex

\* A finite set of logs as the list get_logs returns: ascending (block, logIndex).
RECURSIVE SortLogs(_)
SortLogs(S) ==
    IF S = {} THEN <<>>
    ELSE LET m == CHOOSE x \in S : \A y \in S \ {x} : LogLess(x, y)
         IN <<m>> \o SortLogs(S \ {m})

\* fetch_logs_chunk: the logs of `pool` in [from_block, to_block].
fetch_logs_chunk(pool, from_block, to_block) ==
    SortLogs({ lg \in Chain : /\ lg.pool = pool
                              /\ from_block <= lg.blockNumber
                              /\ lg.blockNumber <= to_block })

\* decode_swap_log: the decoded fields, or the exception raised.
decode_swap_log(lg, v) ==
    IF lg.ntopics < 3 THEN [ok |-> FALSE, err |-> "LogTopicError"]
    ELSE IF lg.datalen = 0 THEN [ok |-> FALSE, err |-> "ValueError"]
    ELSE IF lg.datalen < DATA_BYTES THEN [ok |-> FALSE, err |-> "InsufficientDataBytes"]
    ELSE [ok |-> TRUE, err |-> "", val |-> Payload(v)]

SwapRow(pool, lg, d) ==
    [pool |-> pool, block_number |-> lg.blockNumber, log_index |-> lg.logIndex,
     amount0 |-> d.val.amount0, amount1 |-> d.val.amount1,
     sqrtPriceX96 |-> d.val.sqrtPriceX96, liquidity |-> d.val.liquidity]

\* Variant: the first decode failure ends the loop over the logs (break, not continue).
RECURSIVE DecodeUntilFailure(_, _, _)
DecodeUntilFailure(pool, logs, v) ==
    IF logs = <<>> THEN <<>>
    ELSE LET d == decode_swap_log(Head(logs), v)
         IN IF d.ok
            THEN <<SwapRow(pool, Head(logs), d)>> \o DecodeUntilFailure(pool, Tail(logs), v)
            ELSE <<>>

\* The loop over logs in main: decode failures are skipped, the rest become rows.
RECURSIVE DecodeAll(_, _, _)
DecodeAll(pool, logs, v) ==
    IF logs = <<>> THEN <<>>
    ELSE LET d == decode_swap_log(Head(logs), v)
             rest == DecodeAll(pool, Tail(logs), v)
         IN IF d.ok THEN <<SwapRow(pool, Head(logs), d)>> \o rest ELSE rest

HasKey(st, k) == \E r \in st : Key(r) = k

\* Variant: INSERT OR REPLACE, the later row overwrites the stored one.
InsertOrReplace(st, r) == { x \in st : Key(x) # Key(r) } \cup {r}

\* One INSERT OR IGNORE under PRIMARY KEY (pool, block_number, log_index): a row
\* whose key is present is dropped.
InsertOrIgnore(st, r) == IF HasKey(st, Key(r)) THEN st ELSE st \cup {r}

\* insert_rows: executemany over the list, then commit.
RECURSIVE insert_rows(_, _)
insert_rows(st, rows) ==
    IF rows = <<>> THEN st
    ELSE insert_rows(InsertOrIgnore(st, Head(rows)), Tail(rows))

Range(s) == { s[i] : i \in DOMAIN s }

\* Variant: the chunk is not clipped to TO_BLOCK.
ChunkEndUnclipped(c, width, to) == c + width - 1

\* The chunk's last block: min(cur + chunk - 1, TO_BLOCK).
ChunkEnd(c, width, to) == Min(c + width - 1, to)

\* Variant: a failed chunk is given up and the next one is tried.
RetryFromNext(c, e) == e + 1

\* The block a retry starts from: `continue` leaves cur as it is.
RetryFrom(c, e) == c

\* Variant: the floor at half the minimum width.
ShrinkBelowFloor(width) == Max(MIN_CHUNK \div 2, width \div 2)

\* The width after a failure: max(50, chunk // 2).
Shrink(width) == Max(MIN_CHUNK, width \div 2)

\* main's argument check: sys.exit(1) on an empty pool or a bad interval.
ValidConfig(pool, from, to) == pool # "" /\ from > 0 /\ to > 0 /\ to >= from

\* Whether get_logs answers a query of [c, e] under adapter a.
MaySucceed(a, c, e) == ~a.threshold \/ (e - c + 1) <= a.w
MayFail(a, c, e) == ~a.threshold \/ (e - c + 1) > a.w

(***************************************************************************)
(* The fetcher: main() of 01_fetch_swaps.py                                *)
(***************************************************************************)
\* No fetcher is running.
FetchIdle ==
    /\ POOL_ADDRESS = ""
    /\ FROM_BLOCK = 0
    /\ TO_BLOCK = 0
    /\ adapter = [threshold |-> FALSE, w |-> 0]
    /\ pc = "idle"
    /\ cur = 0
    /\ chunk = INIT_CHUNK
    /\ end = 0
    /\ retries = 0
    /\ nruns = 0
    /\ chunks = <<>>
    /\ firstRows = {}
    /\ conflict = FALSE
    /\ runBase = {}
    /\ seriesBase = {}
    /\ resumed = FALSE
    /\ mixed = FALSE

\* No feature pipeline is running.
PipelineIdle ==
    /\ fpc = "idle"
    /\ scan = <<>>
    /\ prev_price = None
    /\ prev_liq = None
    /\ rows_out = <<>>
    /\ n = 0
    /\ featSrc = <<>>

\* The columns of swaps_raw as the fetcher creates it.
FetcherColumns ==
    {"chain", "pool", "block_number", "log_index", "tx_hash", "sender", "recipient",
     "amount0", "amount1", "sqrtPriceX96", "liquidity", "tick", "block_ts"}

\* The fetcher's table, no swaps_features, no pipeline running.
FeaturesIdle ==
    /\ columns = FetcherColumns
    /\ swaps_features = <<>>
    /\ PipelineIdle

\* No backtest is running.
BacktestIdle ==
    /\ script = "none"
    /\ table = <<>>
    /\ cfg = [TRAIN_FRAC |-> None, Z_CAP_Q |-> None, Z_CAP |-> None, STATIC_Q |-> None,
             ROLL_W |-> 0, ROLL_Q |-> None]
    /\ bpc = "idle"
    /\ train = <<>>
    /\ test = <<>>
    /\ z_cap = None
    /\ scale_static = <<>>
    /\ size_eff_static = <<>>
    /\ z_cap_roll = <<>>
    /\ t = 0
    /\ scale_roll = <<>>
    /\ size_eff_roll = <<>>
    /\ res = <<>>
    /\ exec_frac = <<>>

\* init_db on a new database file: swaps_raw is empty.
Init ==
    /\ swaps_raw = {}
    /\ FetchIdle
    /\ FeaturesIdle
    /\ BacktestIdle

Stopped == pc \in {"idle", "done", "failed", "crashed", "exit"}

\* A run starts with a configuration main rejects: nothing is touched.
StartRejected ==
    /\ Stopped
    /\ nruns < MaxRuns
    /\ \E p \in Pools \cup {""}, iv \in Intervals :
        /\ ~ValidConfig(p, iv[1], iv[2])
        /\ POOL_ADDRESS' = p
        /\ FROM_BLOCK' = iv[1]
        /\ TO_BLOCK' = iv[2]
    /\ pc' = "exit"
    /\ nruns' = nruns + 1
    /\ chunks' = <<>>
    /\ UNCHANGED <<swaps_raw, adapter, cur, chunk, end, retries, firstRows,
                   conflict, runBase, seriesBase, resumed, mixed>>
    /\ UNCHANGED notFetch

\* A run starts: cur = FROM_BLOCK, chunk = INIT_CHUNK.
StartRun ==
    /\ Stopped
    /\ nruns < MaxRuns
    /\ \E p \in Pools, iv \in Intervals, a \in Adapters :
        /\ ValidConfig(p, iv[1], iv[2])
        /\ POOL_ADDRESS' = p
        /\ FROM_BLOCK' = iv[1]
        /\ TO_BLOCK' = iv[2]
        /\ adapter' = a
        /\ cur' = iv[1]
        /\ resumed' = (pc = "failed" /\ p = POOL_ADDRESS /\ iv = <<FROM_BLOCK, TO_BLOCK>>)
    /\ chunk' = INIT_CHUNK
    /\ end' = 0
    /\ retries' = 0
    /\ pc' = "loop"
    /\ nruns' = nruns + 1
    /\ chunks' = <<>>
    /\ runBase' = swaps_raw
    /\ seriesBase' = IF resumed' THEN seriesBase ELSE swaps_raw
    /\ mixed' = IF resumed' THEN mixed ELSE FALSE
    /\ UNCHANGED <<swaps_raw, firstRows, conflict>>
    /\ UNCHANGED notFetch

\* while cur <= TO_BLOCK: end = min(cur + chunk - 1, TO_BLOCK); retries = 0
LoopEnter ==
    /\ pc = "loop"
    /\ cur <= TO_BLOCK
    /\ end' = ChunkEnd(cur, chunk, TO_BLOCK)
    /\ retries' = 0
    /\ pc' = "fetch"
    /\ UNCHANGED <<swaps_raw, POOL_ADDRESS, FROM_BLOCK, TO_BLOCK, adapter, cur, chunk,
                   nruns, chunks, firstRows, conflict, runBase, seriesBase, resumed, mixed>>
    /\ UNCHANGED notFetch

\* The loop ends: conn.close(), [DONE].
LoopExit ==
    /\ pc = "loop"
    /\ cur > TO_BLOCK
    /\ pc' = "done"
    /\ UNCHANGED <<swaps_raw, POOL_ADDRESS, FROM_BLOCK, TO_BLOCK, adapter, cur, chunk, end,
                   retries, nruns, chunks, firstRows, conflict, runBase, seriesBase,
                   resumed, mixed>>
    /\ UNCHANGED notFetch

\* get_logs answers: decode every log, insert the rows, advance past the chunk.
FetchOk ==
    /\ pc = "fetch"
    /\ MaySucceed(adapter, cur, end)
    /\ \E v \in Versions :
        LET logs == fetch_logs_chunk(POOL_ADDRESS, cur, end)
            rows == DecodeAll(POOL_ADDRESS, logs, v)
        IN /\ swaps_raw' = insert_rows(swaps_raw, rows)
           /\ firstRows' = firstRows \cup
                  { r \in Range(rows) : ~HasKey(swaps_raw, Key(r)) }
           /\ conflict' = (conflict \/
                  \E r \in Range(rows) : HasKey(swaps_raw, Key(r)) /\ r \notin swaps_raw)
           /\ mixed' = (mixed \/ (v # 1 /\ rows # <<>>))
    /\ chunks' = Append(chunks, <<cur, end>>)
    /\ cur' = end + 1
    /\ pc' = "loop"
    /\ UNCHANGED <<POOL_ADDRESS, FROM_BLOCK, TO_BLOCK, adapter, chunk, end, retries, nruns,
                   runBase, seriesBase, resumed>>
    /\ UNCHANGED notFetch

\* get_logs answers but get_block raises for a decoded log's block: the exception
\* leaves main before insert_rows.
TimestampFail ==
    /\ pc = "fetch"
    /\ MaySucceed(adapter, cur, end)
    /\ DecodeAll(POOL_ADDRESS, fetch_logs_chunk(POOL_ADDRESS, cur, end), 1) # <<>>
    /\ pc' = "crashed"
    /\ UNCHANGED <<swaps_raw, POOL_ADDRESS, FROM_BLOCK, TO_BLOCK, adapter, cur, chunk, end,
                   retries, nruns, chunks, firstRows, conflict, runBase, seriesBase,
                   resumed, mixed>>
    /\ UNCHANGED notFetch

\* get_logs raises, retries <= MAX_RETRIES, chunk > 50: halve and retry from cur.
RetryShrink ==
    /\ pc = "fetch"
    /\ MayFail(adapter, cur, end)
    /\ retries + 1 <= MAX_RETRIES
    /\ chunk > MIN_CHUNK
    /\ retries' = retries + 1
    /\ chunk' = Shrink(chunk)
    /\ cur' = RetryFrom(cur, end)
    /\ end' = ChunkEnd(cur', chunk', TO_BLOCK)
    /\ pc' = IF cur' <= TO_BLOCK THEN "fetch" ELSE "loop"
    /\ UNCHANGED <<swaps_raw, POOL_ADDRESS, FROM_BLOCK, TO_BLOCK, adapter, nruns,
                   chunks, firstRows, conflict, runBase, seriesBase, resumed, mixed>>
    /\ UNCHANGED notFetch

\* get_logs raises, retries <= MAX_RETRIES, chunk already 50: retry as is.
RetrySame ==
    /\ pc = "fetch"
    /\ MayFail(adapter, cur, end)
    /\ retries + 1 <= MAX_RETRIES
    /\ chunk <= MIN_CHUNK
    /\ retries' = retries + 1
    /\ cur' = RetryFrom(cur, end)
    /\ pc' = IF cur' <= TO_BLOCK THEN "fetch" ELSE "loop"
    /\ UNCHANGED <<swaps_raw, POOL_ADDRESS, FROM_BLOCK, TO_BLOCK, adapter, chunk,
                   end, nruns, chunks, firstRows, conflict, runBase, seriesBase, resumed,
                   mixed>>
    /\ UNCHANGED notFetch

\* get_logs raises and retries exceeds MAX_RETRIES: the exception leaves main.
Raise ==
    /\ pc = "fetch"
    /\ MayFail(adapter, cur, end)
    /\ retries + 1 > MAX_RETRIES
    /\ retries' = retries + 1
    /\ pc' = "failed"
    /\ UNCHANGED <<swaps_raw, POOL_ADDRESS, FROM_BLOCK, TO_BLOCK, adapter, cur, chunk, end,
                   nruns, chunks, firstRows, conflict, runBase, seriesBase, resumed, mixed>>
    /\ UNCHANGED notFetch

Next ==
    \/ StartRejected
    \/ StartRun
    \/ LoopEnter
    \/ LoopExit
    \/ FetchOk
    \/ TimestampFail
    \/ RetryShrink
    \/ RetrySame
    \/ Raise

Spec == Init /\ [][Next]_vars

(***************************************************************************)
(* Properties of the fetcher                                               *)
(***************************************************************************)
KeyUnique(st) == \A r1 \in st, r2 \in st : Key(r1) = Key(r2) => r1 = r2

InBlocks(lg, pool, from, to) ==
    lg.pool = pool /\ from <= lg.blockNumber /\ lg.blockNumber <= to

Decodes(lg) == lg.ntopics >= 3 /\ lg.datalen >= DATA_BYTES

\* The row the canonical chain holds for a decodable log.
CanonicalRow(lg) ==
    [pool |-> lg.pool, block_number |-> lg.blockNumber, log_index |-> lg.logIndex,
     amount0 |-> Payload(1).amount0, amount1 |-> Payload(1).amount1,
     sqrtPriceX96 |-> Payload(1).sqrtPriceX96, liquidity |-> Payload(1).liquidity]

\* What one uninterrupted run over [from, to] leaves in a store that held `base`.
OneRun(base, pool, from, to) ==
    base \cup { CanonicalRow(lg) :
                  lg \in { x \in Chain : /\ InBlocks(x, pool, from, to)
                                          /\ Decodes(x)
                                          /\ ~HasKey(base, LogKey(x)) } }

\* C1: after any sequence of fetch runs the store holds at most one row per
\* (pool, block_number, log_index), and every row still has the values of its
\* first insertion, also when a later fetch returned other values for its key.
C1_Idempotent == KeyUnique(swaps_raw) /\ swaps_raw = firstRows

\* C1 witness: a second run re-fetched a stored key with different values.
C1_Refetched == conflict /\ nruns >= 2 /\ pc = "done"

\* C2: when a run completes, its fetched chunks are contiguous, disjoint and cover
\* exactly [FROM_BLOCK, TO_BLOCK], and every decodable log returned for them is in
\* the store exactly once.
C2_CompleteOnce ==
    pc = "done" =>
        /\ Len(chunks) >= 1
        /\ chunks[1][1] = FROM_BLOCK
        /\ chunks[Len(chunks)][2] = TO_BLOCK
        /\ \A i \in DOMAIN chunks : chunks[i][1] <= chunks[i][2]
        /\ \A i \in 1..(Len(chunks) - 1) : chunks[i + 1][1] = chunks[i][2] + 1
        /\ \A i \in DOMAIN chunks :
             \A lg \in Range(fetch_logs_chunk(POOL_ADDRESS, chunks[i][1], chunks[i][2])) :
                Decodes(lg) =>
                    Cardinality({ r \in swaps_raw : Key(r) = LogKey(lg) }) = 1

\* C2 witness: a completed run of at least three chunks, shrunk after failures, whose
\* last chunk was clipped to TO_BLOCK, with rows stored.
C2_ShrunkAndClipped ==
    /\ pc = "done"
    /\ Len(chunks) >= 3
    /\ chunk < INIT_CHUNK
    /\ chunks[Len(chunks)][2] - chunks[Len(chunks)][1] + 1 < chunk
    /\ swaps_raw # {}

\* C3: under an adapter that fails exactly above a width W_min the fetcher can reach
\* (W_min >= 50), no run propagates the adapter failure.
C3_ThresholdConverges ==
    (adapter.threshold /\ adapter.w >= MIN_CHUNK) => pc # "failed"

\* C7: at a fatal adapter failure the rows of the run's earlier chunks are stored,
\* everything stored before the run is still there, and no row of the failed chunk
\* was written; a run that completes over a canonical source, resumed after such a
\* failure or not, leaves what one uninterrupted run leaves.
C7_FailureKeepsStore ==
    /\ pc = "failed" =>
        /\ runBase \subseteq swaps_raw
        /\ \A i \in DOMAIN chunks :
             \A lg \in Range(fetch_logs_chunk(POOL_ADDRESS, chunks[i][1], chunks[i][2])) :
                Decodes(lg) => HasKey(swaps_raw, LogKey(lg))
        /\ \A lg \in Range(fetch_logs_chunk(POOL_ADDRESS, cur, end)) :
             HasKey(swaps_raw, LogKey(lg)) => HasKey(runBase, LogKey(lg))
    /\ (pc = "done" /\ ~mixed) =>
        swaps_raw = OneRun(seriesBase, POOL_ADDRESS, FROM_BLOCK, TO_BLOCK)

\* C7 witness: a run failed fatally after storing rows, and the re-run over the same
\* interval completed and added the rest.
C7_ResumedAfterFailure ==
    /\ pc = "done"
    /\ resumed
    /\ ~mixed
    /\ runBase # seriesBase
    /\ swaps_raw # runBase

\* C8: a log with fewer than three topics fails to decode with a topic error; in
\* every fetched chunk each log that decodes is stored, each that does not is not,
\* and the fetcher has advanced past the chunk.
C8_DecodeFailureSkipped ==
    \A i \in DOMAIN chunks :
        /\ cur > chunks[i][2]
        /\ \A lg \in Range(fetch_logs_chunk(POOL_ADDRESS, chunks[i][1], chunks[i][2])) :
             /\ lg.ntopics < 3 => decode_swap_log(lg, 1).err = "LogTopicError"
             /\ decode_swap_log(lg, 1).ok <=> HasKey(swaps_raw, LogKey(lg))

\* C8 witness: a fetched chunk held a two-topic log and, after it, a log that decodes.
C8_BatchWithBadLog ==
    \E i \in DOMAIN chunks :
        \E bad, good \in Range(fetch_logs_chunk(POOL_ADDRESS, chunks[i][1], chunks[i][2])) :
            /\ bad.ntopics < 3
            /\ LogLess(bad, good)
            /\ HasKey(swaps_raw, LogKey(good))
            /\ ~HasKey(swaps_raw, LogKey(bad))

\* C16: a failure of get_logs adds one to retries; while retries <= MAX_RETRIES the
\* width becomes max(50, chunk // 2) and the query is repeated from the same cur
\* with the chunk's end recomputed; beyond MAX_RETRIES the run fails with cur and
\* chunk as they are.  Within a run no step makes the chunk wider, a success
\* included.
C16_RetryStep ==
    [][/\ (pc = "fetch" /\ retries' # retries) =>
             /\ retries' = retries + 1
             /\ cur' = cur
             /\ IF retries' <= MAX_RETRIES
                THEN /\ pc' = "fetch"
                     /\ chunk' = (IF chunk \div 2 < 50 THEN 50 ELSE chunk \div 2)
                     /\ end' = (IF cur + chunk' - 1 < TO_BLOCK THEN cur + chunk' - 1
                                ELSE TO_BLOCK)
                ELSE /\ pc' = "failed"
                     /\ chunk' = chunk
       /\ nruns' = nruns => chunk' <= chunk]_vars

\* A chunk was fetched, and a later failure has brought the width to the floor.
C16_ShrunkToFloor ==
    /\ pc = "fetch"
    /\ retries >= 1
    /\ chunk = MIN_CHUNK
    /\ chunks # <<>>

\* The block after the last chunk the run has fetched.
ResumePoint == IF chunks = <<>> THEN FROM_BLOCK ELSE chunks[Len(chunks)][2] + 1

\* C17: whenever a run has failed on the adapter, the chunk width is the minimum
\* width, 50, and the failed chunk starts at the block after the last one fetched.
C17_FatalAtFloor ==
    pc = "failed" => (chunk = MIN_CHUNK /\ cur = ResumePoint)

\* The second half alone: the failed chunk starts after the last one fetched.
FatalAtResumePoint == pc = "failed" => cur = ResumePoint

(***************************************************************************)
(* The feature pipeline: 03_build_features.py                              *)
(***************************************************************************)
USDC_DECIMALS == 6
WETH_DECIMALS == 18
BATCH == 5000

MaxRows == 3

FeatBlocks == {1, 2}
LogIndexes == {0, 1}

\* Scenario A's event: +1_000_000 of USDC, -400 of WETH, a sqrt price of price
\* 2500, and a liquidity of 50_000_000 for the event after it.
ScenarioA ==
    [amount0 |-> QInt(1000000), amount1 |-> QInt(-400),
     sqrtPriceX96 |-> QInt(20000), liquidity |-> QInt(50000000)]

\* The payloads of the rows a store is drawn from: a swap at price 2500, a swap at
\* price 10000 into a pool left without liquidity, and a row with a zero sqrt price
\* and no WETH flow.
FeatPayloads ==
    { [amount0 |-> QInt(1000000), amount1 |-> QExp(-4, 14),
       sqrtPriceX96 |-> QInt(20000), liquidity |-> QInt(50000000)],
      [amount0 |-> QInt(-5000000), amount1 |-> QExp(5, 14),
       sqrtPriceX96 |-> QInt(10000), liquidity |-> QInt(0)],
      [amount0 |-> QInt(2000000), amount1 |-> QInt(0),
       sqrtPriceX96 |-> QInt(0), liquidity |-> QInt(25000000)] }

FeatKeys == Pools \X FeatBlocks \X LogIndexes

FeatRow(k, pl) ==
    [pool |-> k[1], block_number |-> k[2], log_index |-> k[3],
     amount0 |-> pl.amount0, amount1 |-> pl.amount1,
     sqrtPriceX96 |-> pl.sqrtPriceX96, liquidity |-> pl.liquidity]

\* A log index is the log's position in its block, whatever the pool.
OnePerPosition(K) ==
    \A k1 \in K, k2 \in K : (k1[2] = k2[2] /\ k1[3] = k2[3]) => k1 = k2

\* The stores swaps_raw can be: one row per primary key.
Stores(keys) ==
    UNION { { { FeatRow(k, f[k]) : k \in K } : f \in [K -> FeatPayloads] } :
            K \in { X \in SUBSET keys : Cardinality(X) <= MaxRows /\ OnePerPosition(X) } }

RowLess(a, b) ==
    \/ a.block_number < b.block_number
    \/ a.block_number = b.block_number /\ a.log_index < b.log_index

\* A store of one more row than a batch holds: a swap at price 2500 in each of
\* the blocks 1..BATCH + 1, in ascending order.
BigScan ==
    [i \in 1..(BATCH + 1) |->
        FeatRow(<<"poolA", i, 0>>,
                [amount0 |-> QInt(1000000), amount1 |-> QExp(-4, 14),
                 sqrtPriceX96 |-> QInt(20000), liquidity |-> QInt(50000000)])]

BigStore == { BigScan[i] : i \in DOMAIN BigScan }

\* SELECT ... ORDER BY block_number ASC, log_index ASC: every row once, ascending;
\* rows of two pools at one (block_number, log_index) come in either order.  The
\* big store's one ascending order is the sequence it is built from.
ScanOrders(st) ==
    IF st = BigStore THEN {BigScan} ELSE
    { sq \in [1..Cardinality(st) -> st] :
        /\ \A i, j \in 1..Cardinality(st) : i # j => sq[i] # sq[j]
        /\ \A i, j \in 1..Cardinality(st) : i < j => ~RowLess(sq[j], sq[i]) }

\* Variant: a price that cannot be computed is given as 0.
price_zero_when_undefined(sqrtP) ==
    LET sp == sqrtP
        p_token1_over_token0 == QMul(QMul(sp, sp), QExp(1, USDC_DECIMALS - WETH_DECIMALS))
    IN IF QLeq(p_token1_over_token0, QInt(0)) THEN QInt(0)
       ELSE QDiv(QInt(1), p_token1_over_token0)

\* price = 1 / ((sqrtPriceX96 / Q96)^2 * 10^(USDC_DECIMALS - WETH_DECIMALS)), nan when
\* the product is <= 0.  sqrtP is in units of Q96, so sp is sqrtP itself.
price_usdc_per_weth_from_sqrtPriceX96(sqrtP) ==
    LET sp == sqrtP
        p_token1_over_token0 == QMul(QMul(sp, sp), QExp(1, USDC_DECIMALS - WETH_DECIMALS))
    IN IF QLeq(p_token1_over_token0, QInt(0)) THEN NaN
       ELSE QDiv(QInt(1), p_token1_over_token0)

\* Variant: the trade size left in raw units of USDC.
compute_execution_price_raw_size(amount0, amount1) ==
    LET usdc_amt == QDiv(amount0, QExp(1, USDC_DECIMALS))
        weth_amt == QDiv(amount1, QExp(1, WETH_DECIMALS))
    IN IF weth_amt = QInt(0)
       THEN [exec_price |-> None, trade_size_usdc |-> QAbs(amount0)]
       ELSE [exec_price |-> QDiv(QAbs(usdc_amt), QAbs(weth_amt)),
             trade_size_usdc |-> QAbs(amount0)]

\* (exec_price, trade_size_usdc): |USDC| / |WETH| after decimals, None when WETH is 0.
compute_execution_price_usdc_per_weth(amount0, amount1) ==
    LET usdc_amt == QDiv(amount0, QExp(1, USDC_DECIMALS))
        weth_amt == QDiv(amount1, QExp(1, WETH_DECIMALS))
        trade_size_usdc == QAbs(usdc_amt)
    IN IF weth_amt = QInt(0)
       THEN [exec_price |-> None, trade_size_usdc |-> trade_size_usdc]
       ELSE [exec_price |-> QDiv(QAbs(usdc_amt), QAbs(weth_amt)),
             trade_size_usdc |-> trade_size_usdc]

\* One iteration of the loop over the cursor: the tuple appended to rows_out.
FeatureRecord(row, pprice, pliq) ==
    LET price == price_usdc_per_weth_from_sqrtPriceX96(row.sqrtPriceX96)
        ep == compute_execution_price_usdc_per_weth(row.amount0, row.amount1)
        ref_price == pprice
        liquidity_prev == pliq
        slippage ==
            IF /\ ref_price # None
               /\ ep.exec_price # None
               /\ ref_price # QInt(0)
               /\ ref_price # NaN
            THEN QDiv(QSub(ep.exec_price, ref_price), ref_price)
            ELSE None
        z == IF liquidity_prev # None /\ liquidity_prev # QInt(0)
             THEN QDiv(ep.trade_size_usdc, liquidity_prev)
             ELSE None
    IN [block_number |-> row.block_number,
        log_index |-> row.log_index,
        price_usdc_per_weth |-> ToSql(price),
        ref_price_usdc_per_weth |-> ToSql(ref_price),
        exec_price_usdc_per_weth |-> ToSql(ep.exec_price),
        slippage |-> ToSql(slippage),
        trade_size_usdc |-> ToSql(ep.trade_size_usdc),
        liquidity |-> row.liquidity,
        liquidity_prev |-> liquidity_prev,
        z |-> ToSql(z)]

\* The events before Scenario A's, of liquidity 50_000_000: one of sqrt price 0,
\* one of sqrtPriceX96 = 2^95 (price 4e12).
ScenarioAPredecessors ==
    { [amount0 |-> QInt(2000000), amount1 |-> QInt(0),
       sqrtPriceX96 |-> QInt(0), liquidity |-> QInt(50000000)],
      [amount0 |-> QInt(4000000), amount1 |-> QExp(-1, 6),
       sqrtPriceX96 |-> Canon(1, 2, 0), liquidity |-> QInt(50000000)] }

\* Stores in which Scenario A's event follows one of these, and a swap at price
\* 2500 may follow it.
ScenarioAStores ==
    UNION { { { FeatRow(<<"poolA", 1, 0>>, pred), FeatRow(<<"poolA", 1, 1>>, ScenarioA) },
              { FeatRow(<<"poolA", 1, 0>>, pred), FeatRow(<<"poolA", 1, 1>>, ScenarioA),
                FeatRow(<<"poolA", 2, 0>>,
                        [amount0 |-> QInt(1000000), amount1 |-> QExp(-4, 14),
                         sqrtPriceX96 |-> QInt(20000), liquidity |-> QInt(50000000)]) } } :
            pred \in ScenarioAPredecessors }

\* The names each required column is accepted under, in the order pick tries them.
RequiredColumns ==
    << <<"block_number", "blockNumber">>,
       <<"log_index", "logIndex">>,
       <<"sqrtPriceX96", "sqrt_price_x96", "sqrt_price">>,
       <<"liquidity", "L">>,
       <<"amount0", "amount_0">>,
       <<"amount1", "amount_1">> >>

\* An input table under the last accepted name of every required column.
OtherNames == { RequiredColumns[i][Len(RequiredColumns[i])] : i \in DOMAIN RequiredColumns }

\* The input tables the pipeline can find: the fetcher's, one under the other
\* names, either without one of its required columns, and none at all.
Schemas ==
    {FetcherColumns, OtherNames, {}}
        \cup { FetcherColumns \ {RequiredColumns[i][1]} : i \in DOMAIN RequiredColumns }
        \cup { OtherNames \ {c} : c \in OtherNames }

\* pick_input_table: swaps_raw or swaps exists.
pick_input_table(colset) == colset # {}

\* Variant: no check of the names.
pick_unchecked(names, colset) == TRUE

\* pick(*names): some accepted name is a column of the input table.
pick(names, colset) == \E i \in DOMAIN names : names[i] \in colset

\* What an earlier run has left of swaps_features: nothing, or the record of an
\* event of block 0 that is no longer in the store.
EarlierTables ==
    { <<>>,
      << FeatureRecord(FeatRow(<<"poolA", 0, 0>>,
                               [amount0 |-> QInt(1000000), amount1 |-> QExp(-4, 14),
                                sqrtPriceX96 |-> QInt(20000),
                                liquidity |-> QInt(50000000)]),
                       None, None) >> }

\* A store as the fetcher can have left it, an input table, and swaps_features as
\* an earlier run left it; no pipeline is running.
InitFeatures ==
    /\ swaps_raw \in Stores(FeatKeys) \cup ScenarioAStores \cup {BigStore}
    /\ columns \in Schemas
    /\ swaps_features \in EarlierTables
    /\ FetchIdle
    /\ PipelineIdle
    /\ BacktestIdle

\* The input table or one of the required columns is missing: RuntimeError before
\* DROP TABLE.
FeatRaise ==
    /\ fpc = "idle"
    /\ \/ ~pick_input_table(columns)
       \/ \E i \in DOMAIN RequiredColumns : ~pick(RequiredColumns[i], columns)
    /\ fpc' = "failed"
    /\ UNCHANGED <<swaps_raw, columns, swaps_features, scan, prev_price, prev_liq,
                   rows_out, n, featSrc, notFeatures>>

\* The columns are found: DROP TABLE IF EXISTS, CREATE TABLE, open the ordered
\* SELECT.  A finished pipeline can be run again.
FeatStart ==
    /\ fpc \in {"idle", "done"}
    /\ pick_input_table(columns)
    /\ \A i \in DOMAIN RequiredColumns : pick(RequiredColumns[i], columns)
    /\ \E order \in ScanOrders(swaps_raw) : scan' = order
    /\ swaps_features' = <<>>
    /\ prev_price' = None
    /\ prev_liq' = None
    /\ rows_out' = <<>>
    /\ n' = 0
    /\ featSrc' = <<>>
    /\ fpc' = "scan"
    /\ UNCHANGED <<swaps_raw, columns, notFeatures>>

\* The cursor yields a row of a scan too short to fill the batch: emit its record,
\* overwrite the carried slot.
FeatStep ==
    /\ fpc = "scan"
    /\ scan # <<>>
    /\ Len(rows_out) + Len(scan) < BATCH
    /\ LET row == Head(scan)
       IN /\ prev_price' = price_usdc_per_weth_from_sqrtPriceX96(row.sqrtPriceX96)
          /\ prev_liq' = row.liquidity
          /\ featSrc' = Append(featSrc, row)
          /\ rows_out' = Append(rows_out, FeatureRecord(row, prev_price, prev_liq))
    /\ scan' = Tail(scan)
    /\ n' = n + 1
    /\ UNCHANGED <<swaps_raw, columns, swaps_features, fpc, notFeatures>>

\* The scan fills the batch: the iterations up to the one that makes
\* len(rows_out) >= batch, in one step, and that iteration's cur.executemany.
\* The INSERT runs on the cursor the loop iterates, which ends the SELECT: the
\* cursor yields no further row.
FeatBatch ==
    /\ fpc = "scan"
    /\ Len(rows_out) + Len(scan) >= BATCH
    /\ LET k == BATCH - Len(rows_out)
           out == [i \in 1..k |->
                      IF i = 1
                      THEN FeatureRecord(scan[1], prev_price, prev_liq)
                      ELSE FeatureRecord(
                               scan[i],
                               price_usdc_per_weth_from_sqrtPriceX96(scan[i - 1].sqrtPriceX96),
                               scan[i - 1].liquidity)]
       IN /\ swaps_features' = swaps_features \o rows_out \o out
          /\ prev_price' = price_usdc_per_weth_from_sqrtPriceX96(scan[k].sqrtPriceX96)
          /\ prev_liq' = scan[k].liquidity
          /\ featSrc' = featSrc \o SubSeq(scan, 1, k)
          /\ n' = n + k
    /\ rows_out' = <<>>
    /\ scan' = <<>>
    /\ UNCHANGED <<swaps_raw, columns, fpc, notFeatures>>

\* The cursor is exhausted: insert what is left of the batch, commit, close.
FeatFinish ==
    /\ fpc = "scan"
    /\ scan = <<>>
    /\ swaps_features' = swaps_features \o rows_out
    /\ fpc' = "done"
    /\ UNCHANGED <<swaps_raw, columns, scan, prev_price, prev_liq, rows_out, n, featSrc,
                   notFeatures>>

NextFeatures ==
    \/ FeatRaise
    \/ FeatStart
    \/ FeatStep
    \/ FeatBatch
    \/ FeatFinish

SpecFeatures == InitFeatures /\ [][NextFeatures]_vars

(***************************************************************************)
(* Properties of the feature pipeline                                      *)
(***************************************************************************)
SetMax(S) == CHOOSE x \in S : \A y \in S : y <= x

\* The position, in the output (which is in scan order), of the record before
\* record i in its pool's stream; 0 when record i is the pool's first.
PoolPredecessor(i) ==
    IF i > 1 /\ featSrc[i - 1].pool = featSrc[i].pool
    THEN i - 1
    ELSE LET before == { j \in 1..(i - 1) : featSrc[j].pool = featSrc[i].pool }
         IN IF before = {} THEN 0 ELSE SetMax(before)

\* C4: for every pool in the store, each of its records in the finished output has
\* the reference price and the previous liquidity of the record before it in that
\* pool's stream, and NULL for both in the pool's first record.
C4_PoolPredecessor ==
    fpc = "done" =>
        \A i \in DOMAIN swaps_features :
            IF PoolPredecessor(i) = 0
            THEN /\ swaps_features[i].ref_price_usdc_per_weth = None
                 /\ swaps_features[i].liquidity_prev = None
            ELSE /\ swaps_features[i].ref_price_usdc_per_weth =
                        swaps_features[PoolPredecessor(i)].price_usdc_per_weth
                 /\ swaps_features[i].liquidity_prev =
                        swaps_features[PoolPredecessor(i)].liquidity

\* The emitted records whose event is Scenario A's and whose carried liquidity
\* is 50_000_000.
ScenarioARecords ==
    { i \in DOMAIN swaps_features :
        /\ featSrc[i].amount0 = ScenarioA.amount0
        /\ featSrc[i].amount1 = ScenarioA.amount1
        /\ swaps_features[i].liquidity_prev = QInt(50000000) }

\* C11 (as the code has it): Scenario A's record has trade size 1.0, z = 2e-8
\* and execution price 1.0 / 4e-16 = 2.5e15.
C11_ScenarioA ==
    fpc = "done" =>
        \A i \in ScenarioARecords :
            /\ swaps_features[i].trade_size_usdc = QInt(1)
            /\ swaps_features[i].z = QExp(2, -8)
            /\ swaps_features[i].exec_price_usdc_per_weth = QExp(25, 14)

\* A finished run emitted Scenario A's record.
C11_ScenarioADone == fpc = "done" /\ ScenarioARecords # {}

\* C11 (as stated): Scenario A's record has trade size 1.0, z = 2e-8 and an
\* execution price within one per cent of 2500.
C11_ScenarioAAsStated ==
    fpc = "done" =>
        \A i \in ScenarioARecords :
            /\ swaps_features[i].trade_size_usdc = QInt(1)
            /\ swaps_features[i].z = QExp(2, -8)
            /\ QLess(QInt(2475), swaps_features[i].exec_price_usdc_per_weth)
            /\ QLess(swaps_features[i].exec_price_usdc_per_weth, QInt(2525))

\* The input table is missing, or has a required column under none of its
\* accepted names.
SchemaIncomplete ==
    \/ columns = {}
    \/ \E i \in DOMAIN RequiredColumns :
           \A k \in DOMAIN RequiredColumns[i] : RequiredColumns[i][k] \notin columns

\* C13: with the input table or a required column missing, the only step of the
\* pipeline is the failure: no event is read, nothing is dropped or written, and
\* swaps_features is as it was.
C13_SchemaFailFast ==
    [][SchemaIncomplete =>
           /\ fpc = "idle"
           /\ fpc' = "failed"
           /\ swaps_features' = swaps_features
           /\ scan' = <<>> /\ rows_out' = <<>> /\ n' = 0 /\ featSrc' = <<>>]_vars

\* The pipeline failed for a missing column, on a store with events and a feature
\* table built earlier.
C13_FailedOverEarlierTable ==
    /\ fpc = "failed"
    /\ columns # {}
    /\ swaps_raw # {}
    /\ swaps_features # <<>>

\* swaps_features holds one record per event of the store, in ascending
\* (block_number, log_index) order, each the record of its event, and no other.
OnePerEvent ==
    /\ Len(swaps_features) = Cardinality(swaps_raw)
    /\ { <<swaps_features[i].block_number, swaps_features[i].log_index>> :
           i \in DOMAIN swaps_features }
         = { <<r.block_number, r.log_index>> : r \in swaps_raw }
    /\ \A i \in 1..(Len(swaps_features) - 1) :
           RowLess(swaps_features[i], swaps_features[i + 1])
    /\ \A i \in DOMAIN swaps_features :
           /\ featSrc[i] \in swaps_raw
           /\ swaps_features[i].block_number = featSrc[i].block_number
           /\ swaps_features[i].log_index = featSrc[i].log_index
           /\ swaps_features[i].liquidity = featSrc[i].liquidity

\* C14: after a completed run, a first one or a repeated one, over whatever an
\* earlier run left, swaps_features holds exactly one record per event of the
\* store, in ascending order, and no row of an earlier run.
C14_FullRebuild == fpc = "done" => OnePerEvent

\* The same for the stores that do not fill a batch.
FullRebuildBelowBatch ==
    (fpc = "done" /\ Cardinality(swaps_raw) < BATCH) => OnePerEvent

\* C18: in the output of a run every record after the first has the price and the
\* liquidity of the record written just before it as reference price and
\* previous liquidity, the first has NULL for both; the record after an event
\* whose price cannot be computed (sqrt price 0) has a NULL reference price and a
\* NULL slippage, whatever the price two records back; slippage is not NULL
\* exactly when the reference price is not NULL and not 0 and the execution price
\* is not NULL; z is not NULL exactly when the previous liquidity is not NULL and
\* not 0.
C18_LiteralPredecessor ==
    fpc \in {"scan", "done"} => \A i \in DOMAIN swaps_features :
        LET rec == swaps_features[i]
        IN /\ IF i = 1
              THEN rec.ref_price_usdc_per_weth = None /\ rec.liquidity_prev = None
              ELSE /\ rec.ref_price_usdc_per_weth = swaps_features[i - 1].price_usdc_per_weth
                   /\ rec.liquidity_prev = swaps_features[i - 1].liquidity
           /\ featSrc[i].sqrtPriceX96 = QInt(0) => rec.price_usdc_per_weth = None
           /\ (i > 1 /\ featSrc[i - 1].sqrtPriceX96 = QInt(0)) =>
                  (rec.ref_price_usdc_per_weth = None /\ rec.slippage = None)
           /\ rec.slippage # None <=>
                  /\ rec.ref_price_usdc_per_weth # None
                  /\ rec.ref_price_usdc_per_weth # QInt(0)
                  /\ rec.exec_price_usdc_per_weth # None
           /\ rec.z # None <=> (rec.liquidity_prev # None /\ rec.liquidity_prev # QInt(0))

\* A finished output with a record that has an execution price and follows an
\* event without a price, itself after an event with one; and a record left
\* without z by a predecessor of liquidity 0.
C18_AfterUndefinedPrice ==
    /\ fpc = "done"
    /\ \E i \in DOMAIN swaps_features :
          /\ i > 2
          /\ swaps_features[i - 2].price_usdc_per_weth # None
          /\ swaps_features[i - 1].price_usdc_per_weth = None
          /\ swaps_features[i].exec_price_usdc_per_weth # None
          /\ swaps_features[i].slippage = None
    /\ \E i \in DOMAIN swaps_features :
          swaps_features[i].liquidity_prev = QInt(0) /\ swaps_features[i].z = None

(***************************************************************************)
(* The backtests: 06_backtest_z_resize.py and 07_backtest_rolling_z_cap.py *)
(***************************************************************************)
MaxN == 4

\* floor of a number >= 0, as int() takes it.
QFloor(x) ==
    IF x.e >= 0 THEN (x.n * Pow10(x.e)) \div x.d
    ELSE x.n \div (x.d * Pow10(0 - x.e))

\* The k-th smallest of the values xs, k counted from 1.
OrderStat(xs, k) ==
    xs[CHOOSE i \in DOMAIN xs :
           /\ Cardinality({ j \in DOMAIN xs : QLess(xs[j], xs[i]) }) < k
           /\ k <= Cardinality({ j \in DOMAIN xs : QLeq(xs[j], xs[i]) })]

\* Variant: the order statistic at floor((n - 1) q), without interpolation.
QuantileLower(xs, q) ==
    IF xs = <<>> THEN NaN
    ELSE OrderStat(xs, QFloor(QMul(QInt(Len(xs) - 1), q)) + 1)

\* Series.quantile(q) and np.quantile(a, q) with their default, linear
\* interpolation: with h = (n - 1) q, the value x[floor h] + (h - floor h) *
\* (x[floor h + 1] - x[floor h]) of the sorted values; nan for no values.
Quantile(xs, q) ==
    IF xs = <<>> THEN NaN
    ELSE LET h == QMul(QInt(Len(xs) - 1), q)
             lo == QFloor(h)
             g == QSub(h, QInt(lo))
             below == OrderStat(xs, lo + 1)
         IN IF lo + 2 > Len(xs) THEN below
            ELSE QAdd(below, QMul(g, QSub(OrderStat(xs, lo + 2), below)))

\* np.minimum(1.0, x): nan propagates.
Minimum1(x) == IF ~IsNum(x) THEN NaN ELSE IF QLeq(QInt(1), x) THEN QInt(1) ELSE x

\* The z column of a frame.
ZColumn(rows) == [i \in DOMAIN rows |-> rows[i].z]

\* The SELECT's WHERE clause: no NULL in z, slippage, trade_size_usdc, liquidity_prev.
NotNull(r) ==
    r.z # None /\ r.slippage # None /\ r.trade_size_usdc # None /\ r.liquidity_prev # None

\* The two cleaning filters: finite z, slippage, size; z, size, liquidity_prev > 0.
Clean(r) ==
    /\ IsNum(r.z) /\ IsNum(r.slippage) /\ IsNum(r.trade_size_usdc)
    /\ QLess(QInt(0), r.z)
    /\ QLess(QInt(0), r.trade_size_usdc)
    /\ QLess(QInt(0), r.liquidity_prev)

\* The rows of a frame at the positions kept, in the frame's order.
Keep(rows, kept) ==
    IF kept = DOMAIN rows THEN rows
    ELSE [k \in 1..Cardinality(kept) |->
             rows[CHOOSE i \in kept : Cardinality({ j \in kept : j <= i }) = k]]

\* Variant: the rows in the order the table stores them.
StorageOrder(rows) == rows

\* ORDER BY block_number ASC, log_index ASC, for rows of distinct positions.
OrderBy(rows) ==
    IF \A i \in 1..(Len(rows) - 1) : RowLess(rows[i], rows[i + 1]) THEN rows
    ELSE [k \in DOMAIN rows |->
             rows[CHOOSE i \in DOMAIN rows :
                      Cardinality({ j \in DOMAIN rows : RowLess(rows[j], rows[i]) }) = k - 1]]

\* df after read_sql (WHERE, ORDER BY) and after the cleaning.
LoadClean(tbl) ==
    LET df == OrderBy(Keep(tbl, { i \in DOMAIN tbl : NotNull(tbl[i]) }))
    IN Keep(df, { i \in DOMAIN df : Clean(df[i]) })

\* The SELECT returns no row.  pd.read_sql then builds the frame from its column
\* names alone, every column of dtype object, and np.isfinite of the first
\* cleaning filter has no loop for object arrays: TypeError.
NoRows(tbl) == \A i \in DOMAIN tbl : ~NotNull(tbl[i])

\* Doubles, for n * TRAIN_FRAC: a mantissa of at most 53 bits, most significant
\* first, times 2^e.
RECURSIVE LeadingZeros(_, _)
\* The number of zero bits of p / q (0 < p < q) after the binary point.
LeadingZeros(p, q) == IF 2 * p >= q THEN 0 ELSE 1 + LeadingZeros(2 * p, q)

RECURSIVE Pow2(_)
Pow2(k) == IF k <= 0 THEN 1 ELSE 2 * Pow2(k - 1)

RECURSIVE RemAfter(_, _, _)
\* The remainder of r / q (r < q) after k bits of its binary expansion.
RemAfter(r, q, k) == IF k = 0 THEN r ELSE RemAfter((2 * r) % q, q, k - 1)

\* The next k bits of the binary expansion of r / q (r < q), and the remainder.
FracBits(r, q, k) ==
    [bits |-> [i \in 1..k |-> IF 2 * RemAfter(r, q, i - 1) >= q THEN 1 ELSE 0],
     rem |-> RemAfter(r, q, k)]

\* bits + 1; one bit longer when every bit is 1.
IncBits(bits) ==
    LET zeros == { i \in DOMAIN bits : bits[i] = 0 }
    IN IF zeros = {} THEN <<1>> \o [i \in DOMAIN bits |-> 0]
       ELSE LET z == CHOOSE i \in zeros : \A j \in zeros : j <= i
            IN [i \in DOMAIN bits |-> IF i < z THEN bits[i] ELSE IF i = z THEN 1 ELSE 0]

\* Round to nearest, ties to even: m with the bits below it given by whether they
\* are more than, exactly, or less than half a unit of m's last place.
RoundBits(m, e, moreThanHalf, half) ==
    IF moreThanHalf \/ (half /\ m[Len(m)] = 1)
    THEN LET up == IncBits(m)
         IN IF Len(up) > Len(m)
            THEN [m |-> SubSeq(up, 1, Len(m)), e |-> e + 1]
            ELSE [m |-> up, e |-> e]
    ELSE [m |-> m, e |-> e]

\* float("p/q") for 0 < p / q < 1: the nearest double.
ToDouble(p, q) ==
    LET lz == LeadingZeros(p, q)
        d == FracBits(p * Pow2(lz), q, 53)
    IN RoundBits(d.bits, 0 - (lz + 53), 2 * d.rem > q, 2 * d.rem = q)

RECURSIVE BitsOfInt(_)
BitsOfInt(k) == IF k = 0 THEN <<>> ELSE BitsOfInt(k \div 2) \o <<k % 2>>

RECURSIVE IntOfBits(_)
IntOfBits(bits) ==
    IF bits = <<>> THEN 0
    ELSE 2 * IntOfBits(SubSeq(bits, 1, Len(bits) - 1)) + bits[Len(bits)]

\* The low 18 bits of v.
Limb(v) == [i \in 1..18 |-> (v \div Pow2(18 - i)) % 2]

\* k * bits for 53 bits and 0 < k < 2^13, in limbs of 18 bits.
MulBits(k, bits) ==
    LET lo == k * IntOfBits(SubSeq(bits, 36, 53))
        mid == k * IntOfBits(SubSeq(bits, 18, 35)) + lo \div Pow2(18)
        hi == k * IntOfBits(SubSeq(bits, 1, 17)) + mid \div Pow2(18)
    IN BitsOfInt(hi) \o Limb(mid) \o Limb(lo)

\* k * x in double arithmetic, k an integer > 0: the product rounded to 53 bits.
DoubleTimes(k, x) ==
    LET prod == MulBits(k, x.m)
        drop == Len(prod) - 53
    IN IF drop <= 0 THEN [m |-> prod, e |-> x.e]
       ELSE LET below == SubSeq(prod, 54, Len(prod))
                sticky == \E i \in 2..Len(below) : below[i] = 1
            IN RoundBits(SubSeq(prod, 1, 53), x.e + drop,
                         below[1] = 1 /\ sticky, below[1] = 1 /\ ~sticky)

\* int(x) for a double x >= 0.
IntOfDouble(x) ==
    IF x.e >= 0 THEN IntOfBits(x.m) * Pow2(x.e)
    ELSE IntOfBits(SubSeq(x.m, 1, Len(x.m) + x.e))

\* int(k * f) for an integer k >= 0 and f = float of the decimal 0 < frac < 1.  A
\* product whose exact value is no integer is at least 1/q from the next one,
\* which rounding cannot bridge, so its int is the exact floor; a product whose
\* exact value is an integer is followed through the double arithmetic.
IntOfProduct(k, frac) ==
    LET q == frac.d * Pow10(0 - frac.e)
        p == frac.n
    IN IF (k * p) % q # 0 THEN (k * p) \div q
       ELSE IF k = 0 THEN 0
       ELSE IntOfDouble(DoubleTimes(k, ToDouble(p, q)))

\* split = int(n * TRAIN_FRAC)
SplitAt(df, c) == IntOfProduct(Len(df), c.TRAIN_FRAC)
TrainOf(df, c) == SubSeq(df, 1, SplitAt(df, c))
TestOf(df, c) == SubSeq(df, SplitAt(df, c) + 1, Len(df))

\* z_cap of 06: float(Z_CAP) when Z_CAP is set, else the train quantile.
StaticCap06(c, tr) ==
    IF c.Z_CAP # None THEN c.Z_CAP ELSE Quantile(ZColumn(tr), c.Z_CAP_Q)

\* z_cap_static of 07: the train quantile.
StaticCap07(c, tr) == Quantile(ZColumn(tr), c.STATIC_Q)

\* scale = min(1, cap / z), per record.
Scales(caps, te) == [i \in DOMAIN te |-> Minimum1(QDiv(caps[i], te[i].z))]
SizesEff(scales, te) == [i \in DOMAIN te |-> QMul(te[i].trade_size_usdc, scales[i])]

\* Variant: the window ends at the current record, z_vals[t-W+1 : t+1].
RollWindowInclusive(z_vals, tt, w) == SubSeq(z_vals, tt - w + 2, tt + 1)

\* window = z_vals[t-ROLL_W : t], t counted from 0.
RollWindow(z_vals, tt, w) == SubSeq(z_vals, tt - w + 1, tt)

\* z_cap_roll[t]: nan before ROLL_W records of history, then the window's quantile.
RollCapAt(z_vals, tt, c) ==
    IF tt < c.ROLL_W THEN NaN ELSE Quantile(RollWindow(z_vals, tt, c.ROLL_W), c.ROLL_Q)

\* z_cap_roll after the loop, as a function of the evaluation stream.
RollCaps(te, c) == [i \in DOMAIN te |-> RollCapAt(ZColumn(te), i - 1, c)]

\* eval_mask = test["z_cap_roll"].notna()
eval_mask(caps) == [i \in DOMAIN caps |-> IsNum(caps[i])]

\* df["slippage"].clip(lower=0.0)
adverse_slippage(r) == IF QLess(r.slippage, QInt(0)) THEN QInt(0) ELSE r.slippage

cost_usdc(te) == [i \in DOMAIN te |-> QMul(te[i].trade_size_usdc, adverse_slippage(te[i]))]

cost_eff(sizes, te) == [i \in DOMAIN te |-> QMul(sizes[i], adverse_slippage(te[i]))]

\* test.loc[mask, column]
Loc(col, mask) == Keep(col, { i \in DOMAIN col : mask[i] })

\* s.dropna()
dropna(s) == Keep(s, { i \in DOMAIN s : IsNum(s[i]) })

\* The sum of s[lo..hi], by halves.
RECURSIVE SumRange(_, _, _)
SumRange(s, lo, hi) ==
    IF lo > hi THEN QInt(0)
    ELSE IF lo = hi THEN s[lo]
    ELSE QAdd(SumRange(s, lo, (lo + hi) \div 2), SumRange(s, (lo + hi) \div 2 + 1, hi))

\* Series.sum(): nan is skipped, the empty sum is 0.0.
Sum(s) == SumRange(dropna(s), 1, Len(dropna(s)))

\* Division of two numpy floats: nan for 0.0 / 0.0, with a warning and no error.
FloatDiv(x, y) ==
    IF ~IsNum(x) \/ ~IsNum(y) \/ y = QInt(0) THEN NaN ELSE QDiv(x, y)

Maximum(s) == s[CHOOSE i \in DOMAIN s : \A j \in DOMAIN s : QLeq(s[j], s[i])]

\* summarize(name, s): name and n alone when nothing is left of s after dropna.
summarize(name, s0) ==
    LET s == dropna(s0)
    IN IF Len(s) = 0
       THEN [name |-> name, n |-> 0]
       ELSE [name |-> name,
             n |-> Len(s),
             mean |-> QDiv(Sum(s), QInt(Len(s))),
             median |-> Quantile(s, Canon(1, 2, 0)),
             p95 |-> Quantile(s, Canon(95, 100, 0)),
             p99 |-> Quantile(s, Canon(99, 100, 0)),
             max |-> Maximum(s),
             total |-> Sum(s)]

\* The rows a feature table is drawn from: z = trade_size_usdc / liquidity_prev.
BtChoices ==
    { [z |-> QInt(1), slippage |-> Canon(1, 100, 0), trade_size_usdc |-> QInt(1), liquidity_prev |-> QInt(1)],
      [z |-> QInt(3), slippage |-> Canon(-1, 100, 0), trade_size_usdc |-> QInt(6), liquidity_prev |-> QInt(2)],
      [z |-> QInt(6), slippage |-> Canon(2, 100, 0), trade_size_usdc |-> QInt(6), liquidity_prev |-> QInt(1)],
      [z |-> QInt(2), slippage |-> None, trade_size_usdc |-> QInt(2), liquidity_prev |-> QInt(1)],
      [z |-> QInt(0), slippage |-> Canon(1, 100, 0), trade_size_usdc |-> QInt(0), liquidity_prev |-> QInt(1)] }

BtRow(i, ch) ==
    [block_number |-> i, log_index |-> 0, z |-> ch.z, slippage |-> ch.slippage,
     trade_size_usdc |-> ch.trade_size_usdc, liquidity_prev |-> ch.liquidity_prev]

SmallTables ==
    UNION { { [i \in 1..k |-> BtRow(i, f[i])] : f \in [1..k -> BtChoices] } : k \in 0..MaxN }

\* 167 records: z = 1..100, then z = 120 with trade size 10, then 66 records of
\* z = 60; int(167 * 0.6) = 100 puts exactly the first hundred in train.
ScenarioB ==
    [i \in 1..167 |->
        IF i <= 100 THEN BtRow(i, [z |-> QInt(i), slippage |-> Canon(1, 100, 0),
                                   trade_size_usdc |-> QInt(i), liquidity_prev |-> QInt(1)])
        ELSE IF i = 101 THEN BtRow(i, [z |-> QInt(120), slippage |-> Canon(1, 100, 0),
                                       trade_size_usdc |-> QInt(10), liquidity_prev |-> Canon(1, 12, 0)])
        ELSE BtRow(i, [z |-> QInt(60), slippage |-> Canon(1, 100, 0),
                       trade_size_usdc |-> QInt(60), liquidity_prev |-> QInt(1)])]

\* 10 records: six of z = 1, then z = 5, 6, 7, 8; int(10 * 0.6) = 6.
ScenarioC ==
    [i \in 1..10 |->
        BtRow(i, [z |-> QInt(IF i <= 6 THEN 1 ELSE i - 2), slippage |-> Canon(1, 100, 0),
                  trade_size_usdc |-> QInt(IF i <= 6 THEN 1 ELSE i - 2),
                  liquidity_prev |-> QInt(1)])]

\* Tables that store their rows last event first.
ReversedTables ==
    { [i \in 1..(MaxN - 1) |-> BtRow(MaxN - i, f[i])] : f \in [1..(MaxN - 1) -> BtChoices] }

\* 90 records of z = 1, 2, 3, 1, 2, 3, ...
Ninety ==
    [i \in 1..90 |->
        BtRow(i, [z |-> QInt(1 + (i % 3)), slippage |-> Canon(1, 100, 0),
                  trade_size_usdc |-> QInt(1 + (i % 3)), liquidity_prev |-> QInt(1)])]

Tables == SmallTables \cup ReversedTables \cup {ScenarioB, ScenarioC, Ninety}

\* Environments: TRAIN_FRAC, the quantiles, the manual cap of 06 (None when Z_CAP
\* is unset) and the rolling window of 07. The first is every default but the
\* window, which the scenarios set.
Configs ==
    { [TRAIN_FRAC |-> Canon(6, 10, 0), Z_CAP_Q |-> Canon(9, 10, 0), Z_CAP |-> None,
       STATIC_Q |-> Canon(9, 10, 0), ROLL_W |-> 3, ROLL_Q |-> Canon(1, 2, 0)],
      [TRAIN_FRAC |-> Canon(6, 10, 0), Z_CAP_Q |-> Canon(1, 2, 0), Z_CAP |-> None,
       STATIC_Q |-> Canon(1, 2, 0), ROLL_W |-> 2, ROLL_Q |-> Canon(9, 10, 0)],
      [TRAIN_FRAC |-> Canon(1, 4, 0), Z_CAP_Q |-> Canon(9, 10, 0), Z_CAP |-> QInt(2),
       STATIC_Q |-> Canon(9, 10, 0), ROLL_W |-> 1, ROLL_Q |-> Canon(9, 10, 0)],
      [TRAIN_FRAC |-> Canon(1, 4, 0), Z_CAP_Q |-> Canon(9, 10, 0), Z_CAP |-> QInt(0),
       STATIC_Q |-> Canon(1, 2, 0), ROLL_W |-> 2, ROLL_Q |-> Canon(1, 2, 0)],
      [TRAIN_FRAC |-> Canon(7, 10, 0), Z_CAP_Q |-> Canon(9, 10, 0), Z_CAP |-> None,
       STATIC_Q |-> Canon(9, 10, 0), ROLL_W |-> 2, ROLL_Q |-> Canon(1, 2, 0)] }

InitBacktest ==
    /\ swaps_raw = {}
    /\ FetchIdle
    /\ FeaturesIdle
    /\ script \in {"06", "07"}
    /\ table \in Tables
    /\ cfg \in Configs
    /\ bpc = "start"
    /\ train = <<>>
    /\ test = <<>>
    /\ z_cap = None
    /\ scale_static = <<>>
    /\ size_eff_static = <<>>
    /\ z_cap_roll = <<>>
    /\ t = 0
    /\ scale_roll = <<>>
    /\ size_eff_roll = <<>>
    /\ res = <<>>
    /\ exec_frac = <<>>

\* main of either script on a table of which the SELECT returns nothing: the
\* cleaning raises.
LoadRaise ==
    /\ bpc = "start"
    /\ NoRows(table)
    /\ bpc' = "failed"
    /\ UNCHANGED <<script, table, cfg, train, test, z_cap, scale_static, size_eff_static,
                   z_cap_roll, t, scale_roll, size_eff_roll, res, exec_frac, notBacktest>>

\* main of 06: load, clean, split, choose z_cap, apply the resize.
Resize06 ==
    /\ bpc = "start"
    /\ script = "06"
    /\ ~NoRows(table)
    /\ LET df == LoadClean(table)
       IN /\ train' = TrainOf(df, cfg)
          /\ test' = TestOf(df, cfg)
          /\ z_cap' = StaticCap06(cfg, train')
          /\ scale_static' = Scales([i \in DOMAIN test' |-> z_cap'], test')
          /\ size_eff_static' = SizesEff(scale_static', test')
    /\ bpc' = "done"
    /\ UNCHANGED <<script, table, cfg, z_cap_roll, t, scale_roll, size_eff_roll, res,
                   exec_frac, notBacktest>>

\* main of 07 up to the rolling loop: load, clean, split, the static cap and scale.
Static07 ==
    /\ bpc = "start"
    /\ script = "07"
    /\ ~NoRows(table)
    /\ LET df == LoadClean(table)
       IN /\ train' = TrainOf(df, cfg)
          /\ test' = TestOf(df, cfg)
          /\ z_cap' = StaticCap07(cfg, train')
          /\ scale_static' = Scales([i \in DOMAIN test' |-> z_cap'], test')
          /\ size_eff_static' = SizesEff(scale_static', test')
          /\ z_cap_roll' = [i \in DOMAIN test' |-> NaN]
    /\ t' = cfg.ROLL_W
    /\ bpc' = "roll"
    /\ UNCHANGED <<script, table, cfg, scale_roll, size_eff_roll, res, exec_frac, notBacktest>>

\* for t in range(ROLL_W, len(test)): z_cap_roll[t] = quantile of the window.
RollStep ==
    /\ bpc = "roll"
    /\ t < Len(test)
    /\ z_cap_roll' = [z_cap_roll EXCEPT ![t + 1] = RollCapAt(ZColumn(test), t, cfg)]
    /\ t' = t + 1
    /\ UNCHANGED <<script, table, cfg, bpc, train, test, z_cap, scale_static,
                   size_eff_static, scale_roll, size_eff_roll, res, exec_frac, notBacktest>>

\* After the loop: scale_roll (nan where the cap is nan) and size_eff_roll, then
\* the costs where the rolling cap is defined, the execution fractions and the
\* three summaries.  The figures and the CSV are not part of the state.
RollDone ==
    /\ bpc = "roll"
    /\ t >= Len(test)
    /\ scale_roll' = Scales(z_cap_roll, test)
    /\ size_eff_roll' = SizesEff(scale_roll', test)
    /\ LET mask == eval_mask(z_cap_roll)
           base_cost == Loc(cost_usdc(test), mask)
           static_cost == Loc(cost_eff(size_eff_static, test), mask)
           roll_cost == Loc(cost_eff(size_eff_roll', test), mask)
           sizes == Loc([i \in DOMAIN test |-> test[i].trade_size_usdc], mask)
       IN /\ exec_frac' = [static |-> FloatDiv(Sum(Loc(size_eff_static, mask)), Sum(sizes)),
                           roll |-> FloatDiv(Sum(Loc(size_eff_roll', mask)), Sum(sizes))]
          /\ res' = << summarize("baseline_full_size_cost", base_cost),
                       summarize("static_resize_cost", static_cost),
                       summarize("rolling_resize_cost", roll_cost) >>
    /\ bpc' = "done"
    /\ UNCHANGED <<script, table, cfg, train, test, z_cap, scale_static, size_eff_static,
                   z_cap_roll, t, notBacktest>>

NextBacktest ==
    \/ LoadRaise
    \/ Resize06
    \/ Static07
    \/ RollStep
    \/ RollDone

SpecBacktest == InitBacktest /\ [][NextBacktest]_vars

(***************************************************************************)
(* Properties of the backtests                                             *)
(***************************************************************************)
\* The rows an evaluation stream can hold: the choices that pass the cleaning.
CleanChoices == { ch \in BtChoices : NotNull(ch) /\ Clean(ch) }

\* Continuations of an evaluation stream after its first k records:
\* one or two records, numbered on from k.
Tails(k) ==
    UNION { { [i \in 1..m |-> BtRow(k + i, f[i])] : f \in [1..m -> CleanChoices] } : m \in 1..2 }

Rolled == script = "07" /\ bpc = "done"

\* C5 (as the code has it): the rolling cap at evaluation position t is the
\* same for every evaluation stream that agrees with this one on the records
\* before t, whatever its records at and after t are; the scale at t is the
\* same for every stream that agrees on the records up to and including t.
C5_NoLookAhead ==
    Rolled =>
        \A i \in DOMAIN test :
            /\ \A tail \in Tails(i - 1) :
                   RollCaps(SubSeq(test, 1, i - 1) \o tail, cfg)[i] = z_cap_roll[i]
            /\ \A tail \in Tails(i) \cup {<<>>} :
                   LET alt == SubSeq(test, 1, i) \o tail
                   IN Scales(RollCaps(alt, cfg), alt)[i] = scale_roll[i]

\* A rolling cap is defined at a position that has later records after it.
C5_CapWithLaterRecords ==
    /\ Rolled
    /\ \E i \in DOMAIN test :
           /\ i < Len(test)
           /\ IsNum(z_cap_roll[i])
           /\ test[i + 1].z # test[i].z
           /\ QLess(scale_roll[i], QInt(1))

\* C5 (as stated): for every evaluation stream that agrees with this one on
\* the records before t, both the rolling cap and the scale at t are the same.
C5_ScaleIgnoresRecordAtT ==
    Rolled =>
        \A i \in DOMAIN test :
            \A tail \in Tails(i - 1) :
                LET alt == SubSeq(test, 1, i - 1) \o tail
                IN /\ RollCaps(alt, cfg)[i] = z_cap_roll[i]
                   /\ Scales(RollCaps(alt, cfg), alt)[i] = scale_roll[i]

InUnit(x) == QLess(QInt(0), x) /\ QLeq(x, QInt(1))

Bounded(caps, scales, sizes, i) ==
    /\ InUnit(scales[i])
    /\ QLeq(sizes[i], test[i].trade_size_usdc)
    /\ (QLeq(test[i].z, caps[i]) => scales[i] = QInt(1))

\* C6: on every evaluation record the static rule's scale is in (0, 1], its
\* effective size is at most the trade size and the scale is 1 when z <= cap;
\* the same for the rolling rule on every record it is evaluated on.
C6_ScaleBounds ==
    bpc = "done" =>
        /\ \A i \in DOMAIN test :
               Bounded([j \in DOMAIN test |-> z_cap], scale_static, size_eff_static, i)
        /\ script = "07" =>
               \A i \in DOMAIN test :
                   eval_mask(z_cap_roll)[i] => Bounded(z_cap_roll, scale_roll, size_eff_roll, i)

\* The W values before position i (counted from 1), written out.
Before(i) == [j \in 1..cfg.ROLL_W |-> test[i - 1 - cfg.ROLL_W + j].z]

\* C9: at evaluation position t (counted from 0) the rolling cap is undefined
\* and the record is left out of the rolling evaluation exactly when
\* t < ROLL_W; from t = ROLL_W on the cap is the ROLL_Q quantile of the ROLL_W
\* evaluation values z[t-W..t-1]. In Scenario C the caps are nan, nan, nan, 6.
C9_RollingWindow ==
    Rolled =>
        /\ \A i \in DOMAIN test :
               /\ (i - 1 < cfg.ROLL_W) <=> ~IsNum(z_cap_roll[i])
               /\ (i - 1 < cfg.ROLL_W) <=> ~eval_mask(z_cap_roll)[i]
               /\ (i - 1 < cfg.ROLL_W) <=> ~IsNum(scale_roll[i])
               /\ i - 1 >= cfg.ROLL_W => z_cap_roll[i] = Quantile(Before(i), cfg.ROLL_Q)
        /\ test = TestOf(LoadClean(table), cfg)
        /\ (table = ScenarioC /\ cfg.ROLL_W = 3 /\ cfg.ROLL_Q = Canon(1, 2, 0)) =>
               /\ ZColumn(test) = <<QInt(5), QInt(6), QInt(7), QInt(8)>>
               /\ z_cap_roll = <<NaN, NaN, NaN, QInt(6)>>

\* Scenario C has run: the cap at t = 3 is 6.
C9_ScenarioC ==
    /\ Rolled
    /\ table = ScenarioC
    /\ cfg.ROLL_W = 3
    /\ Len(test) = 4
    /\ z_cap_roll[4] = QInt(6)

\* Scenario B's environment: quantile 0.9 of the train z, no manual cap.
ScenarioBRun ==
    /\ table = ScenarioB
    /\ bpc = "done"
    /\ cfg.TRAIN_FRAC = Canon(6, 10, 0)
    /\ \/ script = "06" /\ cfg.Z_CAP = None /\ cfg.Z_CAP_Q = Canon(9, 10, 0)
       \/ script = "07" /\ cfg.STATIC_Q = Canon(9, 10, 0)

\* C10 (as the code has it): in Scenario B the train z are 1..100, the static
\* cap is 90.1, and the record of z = 120 and trade size 10 gets the scale
\* 90.1 / 120 and the effective size 901 / 120.
C10_ScenarioB ==
    ScenarioBRun =>
        /\ ZColumn(train) = [i \in 1..100 |-> QInt(i)]
        /\ test[1].z = QInt(120) /\ test[1].trade_size_usdc = QInt(10)
        /\ z_cap = Canon(901, 10, 0)
        /\ scale_static[1] = Canon(901, 1200, 0)
        /\ size_eff_static[1] = Canon(901, 120, 0)

\* Scenario B has run, in each script.
C10_ScenarioBDone ==
    /\ ScenarioBRun
    /\ Len(train) = 100
    /\ test[1].z = QInt(120)
    /\ QLess(QInt(90), z_cap)

\* C10 (as stated): in Scenario B the static cap is 90, the scale 0.75 and the
\* effective size 7.5.
C10_ScenarioBAsStated ==
    ScenarioBRun =>
        /\ z_cap = QInt(90)
        /\ scale_static[1] = Canon(3, 4, 0)
        /\ size_eff_static[1] = Canon(15, 2, 0)

\* The table with the values of the evaluation record at position k replaced by
\* those of the clean choice ch.
WithEvalRecord(k, ch) ==
    [i \in DOMAIN table |->
        IF table[i].block_number = test[k].block_number
        THEN BtRow(table[i].block_number, ch)
        ELSE table[i]]

\* The static cap the script takes from a table when it takes a train quantile.
QuantileCap(tbl) ==
    IF script = "06"
    THEN StaticCap06(cfg, TrainOf(LoadClean(tbl), cfg))
    ELSE StaticCap07(cfg, TrainOf(LoadClean(tbl), cfg))

\* After the split: train followed by test is the cleaned rows of the table, each
\* once, in ascending (block_number, log_index) order, and a static cap taken
\* from a quantile is the same when an evaluation record (one of the first three,
\* or the last) has other values.
SplitKeepsStream ==
    LET all == train \o test
        kept == { i \in DOMAIN table : NotNull(table[i]) /\ Clean(table[i]) }
    IN /\ Len(all) = Cardinality(kept)
       /\ { all[i] : i \in DOMAIN all } = { table[i] : i \in kept }
       /\ \A i \in 1..(Len(all) - 1) : RowLess(all[i], all[i + 1])
       /\ \A a \in DOMAIN train, b \in DOMAIN test : RowLess(train[a], test[b])
       /\ (script = "07" \/ cfg.Z_CAP = None) =>
              \A k \in { j \in DOMAIN test : j <= 3 \/ j = Len(test) }, ch \in CleanChoices :
                  QuantileCap(WithEvalRecord(k, ch)) = z_cap

\* C12: after the split, train is the first floor(n * TRAIN_FRAC) records of the
\* cleaned, ascending stream and test the rest, nothing lost, duplicated or
\* reordered, and the quantile-derived static cap does not depend on the values
\* of evaluation records.
C12_ChronologicalSplit ==
    bpc \in {"roll", "done"} =>
        /\ SplitKeepsStream
        /\ Len(train) = QFloor(QMul(QInt(Len(train) + Len(test)), cfg.TRAIN_FRAC))

\* The same with the split where int(n * TRAIN_FRAC), taken in doubles, puts it.
SplitAsComputed ==
    bpc = "done" =>
        /\ SplitKeepsStream
        /\ Len(train) = IntOfProduct(Len(train) + Len(test), cfg.TRAIN_FRAC)

\* The number of evaluation records with a defined rolling cap.
Covered == Cardinality({ i \in DOMAIN z_cap_roll : eval_mask(z_cap_roll)[i] })

\* C15: in 07 the three summaries are over the evaluation records with a defined
\* rolling cap; on a table whose evaluation fraction has fewer than ROLL_W + 1
\* records the run does not raise and ends with three summaries of count 0.
C15_ZeroCoverage ==
    script = "07" =>
        /\ bpc = "done" =>
               /\ Len(res) = 3
               /\ \A k \in DOMAIN res : res[k].n = Covered
        /\ Len(TestOf(LoadClean(table), cfg)) < cfg.ROLL_W + 1 =>
               /\ bpc # "failed"
               /\ bpc = "done" => \A k \in DOMAIN res : res[k].n = 0

\* The same for the runs whose SELECT returns a row and whose training fraction
\* is not empty.
ZeroCoverageWhenLoaded ==
    (script = "07" /\ bpc = "done" /\ train # <<>>) =>
        /\ Len(res) = 3
        /\ \A k \in DOMAIN res : res[k].n = Covered
        /\ Len(test) < cfg.ROLL_W + 1 =>
               /\ \A k \in DOMAIN res : res[k] = [name |-> res[k].name, n |-> 0]
               /\ exec_frac = [static |-> NaN, roll |-> NaN]

\* Short of records, with rows loaded: the evaluation fraction is not empty but
\* has no record with a rolling cap.
ShortEvaluationDone ==
    /\ script = "07" /\ bpc = "done"
    /\ test # <<>> /\ Len(test) < cfg.ROLL_W + 1
====
